---------------------------- MODULE Spec2Model ----------------------------
(***************************************************************************)
(* A model of the document analysis pipeline of the AI Legal Document      *)
(* Analyzer (src/code/legal_core.py): the risk scorer, the contract-type   *)
(* classifier, the clause detector and the version comparator; the text    *)
(* extractors; and, of the dashboard (src/code/app.py), the analyze flow   *)
(* and the history file.                                                   *)
(*                                                                         *)
(* Python strings are TLA+ strings: Len, \o and SubSeq act on them as on   *)
(* sequences of characters (1-based).  Texts are ASCII, with one character *)
(* more, the typographic apostrophe U+2019, written as the substitute      *)
(* character 0x1a (TypographicApostrophe); on such text str.lower() keeps  *)
(* the length and changes only the letters A-Z.                            *)
(***************************************************************************)
EXTENDS Integers, Sequences, FiniteSets, TLC

VARIABLES
    pc,          \* "start" before the operation under study has run, "done" after
    clause_map,  \* the argument of assess_risk
    risk,        \* the outcome of assess_risk
    text,        \* the argument of detect_contract_type / detect_clauses_with_excerpts
    doc_type,    \* the result of detect_contract_type
    clauses,     \* the result of detect_clauses_with_excerpts
    text1,       \* first argument of compare_versions
    text2,       \* second argument of compare_versions
    similarity,  \* the result of compare_versions, in hundredths of a percent point
    env,         \* what an extraction or an analysis is given: the upload, the pasted
                 \* text, the libraries at hand, the pages of the PDF
    outcome,     \* how the operation under study ended
    events,      \* the calls made and the messages shown, in order
    summary,     \* the result of summarize_text
    history,     \* the content of the history file
    sessions     \* the sessions running against the history file, each with its locals

\* The variables of the extractors, the dashboard and the history file.
appvars == <<env, outcome, events, summary, history, sessions>>

vars == <<pc, clause_map, risk, text, doc_type, clauses, text1, text2, similarity,
          appvars>>

\* The value of a result variable before the function that sets it has run.
NotComputed == "<not computed>"

\* The variables of the extractors, the dashboard and the history file in a
\* specification that is about none of them.
AppUnused ==
    /\ env = <<>> /\ outcome = NotComputed /\ events = <<>>
    /\ summary = NotComputed /\ history = <<>> /\ sessions = <<>>

(***************************************************************************)
(* Generic helpers                                                         *)
(***************************************************************************)

\* s[i] of a Python string, with i counted from 1.
CharAt(s, i) == SubSeq(s, i, i)

Min(S) == CHOOSE x \in S : \A y \in S : x <= y
Max(S) == CHOOSE x \in S : \A y \in S : x >= y

\* The string made of n copies of the one-character string c.
RECURSIVE Rep(_, _)
Rep(c, n) ==
    IF n <= 0 THEN ""
    ELSE IF n = 1 THEN c
    ELSE LET h == Rep(c, n \div 2)
         IN  IF n % 2 = 0 THEN h \o h ELSE h \o h \o c

(***************************************************************************)
(* Risk assessment: assess_risk                                            *)
(***************************************************************************)

\* The ten clause categories of detect_clauses_with_excerpts, in declared order.
ClauseNames ==
    << "Confidentiality", "Termination", "Payment", "Liability",
       "Dispute Resolution", "Governing Law", "Intellectual Property",
       "Non-Compete", "Indemnity", "Force Majeure" >>

\* Largest number of categories of a clause map handed to assess_risk.
MaxCategories == 10

\* Name of the i-th key of a generated clause map: the declared names first,
\* then made-up ones (assess_risk accepts any dict).
KeyName(i) ==
    IF i <= Len(ClauseNames) THEN ClauseNames[i] ELSE "Extra Clause " \o ToString(i)

\* The thresholds of assess_risk, in tenths: ratio >= 0.8 and 0.5 <= ratio.
LowThresholdTenths == 8
MediumThresholdTenths == 5

\* present / total as Python evaluates it: a ZeroDivisionError when total = 0,
\* else the quotient, kept as the exact fraction num/den.
TrueDiv(present, total) ==
    IF total = 0
    THEN [raised |-> "ZeroDivisionError", num |-> 0, den |-> 1]
    ELSE [raised |-> "", num |-> present, den |-> total]

\* ratio >= tenths/10.  present/total is the correctly rounded quotient and the
\* literal the correctly rounded tenth, so for the totals of the model the
\* floating-point comparison agrees with the exact one.
RatioGE(ratio, tenths) == ratio.num * 10 >= tenths * ratio.den

\* sum(1 for v in clause_map.values() if v.get("found"))
CountFound(m) == Cardinality({i \in DOMAIN m : m[i].found})

\* Mutation of assess_risk: the cut-offs slipped to 0.5 and 0.2.
assess_risk_shifted(m) ==
    IF m = <<>>
    THEN [raised |-> "", level |-> "Unknown",
          comment |-> "No clause information available."]
    ELSE LET ratio == TrueDiv(CountFound(m), Len(m))
         IN  IF RatioGE(ratio, 5)
             THEN [raised |-> "", level |-> "Low",
                   comment |-> "Most key clauses are present; minor legal review recommended."]
             ELSE IF RatioGE(ratio, 2)
             THEN [raised |-> "", level |-> "Medium",
                   comment |-> "Some important clauses are missing or incomplete - review recommended."]
             ELSE [raised |-> "", level |-> "High",
                   comment |-> "Multiple critical clauses missing - significant legal risk detected."]

\* Mutation of assess_risk: the test of the middle band negated, so that the
\* ratios below 0.5 are rated Medium and those from 0.5 up to 0.8 High.
assess_risk_nonmonotonic(m) ==
    IF m = <<>>
    THEN [raised |-> "", level |-> "Unknown",
          comment |-> "No clause information available."]
    ELSE LET ratio == TrueDiv(CountFound(m), Len(m))
         IN  IF RatioGE(ratio, LowThresholdTenths)
             THEN [raised |-> "", level |-> "Low",
                   comment |-> "Most key clauses are present; minor legal review recommended."]
             ELSE IF ~RatioGE(ratio, MediumThresholdTenths)
             THEN [raised |-> "", level |-> "Medium",
                   comment |-> "Some important clauses are missing or incomplete - review recommended."]
             ELSE [raised |-> "", level |-> "High",
                   comment |-> "Multiple critical clauses missing - significant legal risk detected."]

\* Mutation of assess_risk: both guards against an empty map dropped.
assess_risk_unguarded(m) ==
    LET total   == Len(m)
        present == CountFound(m)
        ratio   == TrueDiv(present, total)
    IN  IF ratio.raised # ""
        THEN [raised |-> ratio.raised, level |-> NotComputed, comment |-> ""]
        ELSE IF RatioGE(ratio, LowThresholdTenths)
        THEN [raised |-> "", level |-> "Low",
              comment |-> "Most key clauses are present; minor legal review recommended."]
        ELSE IF RatioGE(ratio, MediumThresholdTenths)
        THEN [raised |-> "", level |-> "Medium",
              comment |-> "Some important clauses are missing or incomplete - review recommended."]
        ELSE [raised |-> "", level |-> "High",
              comment |-> "Multiple critical clauses missing - significant legal risk detected."]

\* assess_risk(clause_map): the outcome is the returned (level, comment), or the
\* exception raised.  A clause map is the sequence of its entries in insertion
\* order.  (The dashes of the source's comments are written "-" here.)
assess_risk(m) ==
    IF m = <<>>
    THEN [raised |-> "", level |-> "Unknown",
          comment |-> "No clause information available."]
    ELSE LET total   == Len(m)
             present == CountFound(m)
             ratio   == IF total # 0 THEN TrueDiv(present, total)
                        ELSE [raised |-> "", num |-> 0, den |-> 1]
         IN  IF ratio.raised # ""
             THEN [raised |-> ratio.raised, level |-> NotComputed, comment |-> ""]
             ELSE IF RatioGE(ratio, LowThresholdTenths)
             THEN [raised |-> "", level |-> "Low",
                   comment |-> "Most key clauses are present; minor legal review recommended."]
             ELSE IF RatioGE(ratio, MediumThresholdTenths) /\ ~RatioGE(ratio, LowThresholdTenths)
             THEN [raised |-> "", level |-> "Medium",
                   comment |-> "Some important clauses are missing or incomplete - review recommended."]
             ELSE [raised |-> "", level |-> "High",
                   comment |-> "Multiple critical clauses missing - significant legal risk detected."]

\* The clause maps handed to assess_risk: up to MaxCategories entries, each
\* found or missing; a found entry carries an excerpt.
ClauseMaps ==
    UNION { { [i \in 1..n |-> [name    |-> KeyName(i),
                               found   |-> f[i],
                               excerpt |-> IF f[i] THEN "excerpt" ELSE ""]]
              : f \in [1..n -> BOOLEAN] }
            : n \in 0..MaxCategories }

(***************************************************************************)
(* Specification of the risk scorer: a clause map is chosen, assess_risk   *)
(* is applied to it.                                                       *)
(***************************************************************************)

InitRisk ==
    /\ pc = "start"
    /\ AppUnused
    /\ clause_map \in ClauseMaps
    /\ risk = NotComputed
    /\ text = "" /\ doc_type = NotComputed /\ clauses = NotComputed
    /\ text1 = "" /\ text2 = "" /\ similarity = NotComputed

AssessRisk ==
    /\ pc = "start"
    /\ risk' = assess_risk(clause_map)
    /\ pc' = "done"
    /\ UNCHANGED <<clause_map, text, doc_type, clauses, text1, text2, similarity, appvars>>

NextRisk == AssessRisk

SpecRisk == InitRisk /\ [][NextRisk]_vars

(***************************************************************************)
(* Claims about the risk scorer (checked under SpecRisk)                   *)
(***************************************************************************)

\* Order of the levels by risk.
RiskRank(level) == CASE level = "Low" -> 0 [] level = "Medium" -> 1 [] level = "High" -> 2

\* clause_map with its i-th entry turned into a found one.
WithFound(m, i) == [m EXCEPT ![i] = [@ EXCEPT !.found = TRUE, !.excerpt = "excerpt"]]

\* C1, as stated: for every non-empty clause map, assess_risk returns Low only
\* when found_count/total_categories >= 0.75 and High only when
\* found_count/total_categories < 0.4.
C1_AsStated ==
    (pc = "done" /\ Len(clause_map) > 0) =>
        /\ risk.level = "Low"  => 4 * CountFound(clause_map) >= 3 * Len(clause_map)
        /\ risk.level = "High" => 10 * CountFound(clause_map) < 4 * Len(clause_map)

\* C1, amended: for every non-empty clause map, assess_risk returns Low only
\* when found_count/total_categories >= 0.75 and High only when
\* found_count/total_categories < 0.5.
C1_LowHighBands ==
    (pc = "done" /\ Len(clause_map) > 0) =>
        /\ risk.level = "Low"  => 4 * CountFound(clause_map) >= 3 * Len(clause_map)
        /\ risk.level = "High" => 2 * CountFound(clause_map) < Len(clause_map)

\* C1 witness: a map with 4 of 10 categories found (ratio 0.4) has been rated High.
C1_Witness ==
    /\ pc = "done"
    /\ Len(clause_map) = 10
    /\ CountFound(clause_map) = 4
    /\ risk.level = "High"

\* C2: the thresholds are total and monotonic: every clause map with at least
\* one category is rated exactly one of Low, Medium, High, and finding one more
\* category of the same map never gives a level of higher risk.
C2_TotalMonotonic ==
    (pc = "done" /\ Len(clause_map) > 0) =>
        /\ risk.raised = ""
        /\ risk.level \in {"Low", "Medium", "High"}
        /\ \A i \in DOMAIN clause_map :
              ~clause_map[i].found =>
                  LET more == assess_risk(WithFound(clause_map, i))
                  IN  /\ more.level \in {"Low", "Medium", "High"}
                      /\ RiskRank(more.level) <= RiskRank(risk.level)

\* C2 witness: a map rated Medium that one more found category moves to Low.
C2_Witness ==
    /\ pc = "done"
    /\ Len(clause_map) > 0
    /\ risk.level = "Medium"
    /\ \E i \in DOMAIN clause_map :
          /\ ~clause_map[i].found
          /\ assess_risk(WithFound(clause_map, i)).level = "Low"

\* C3: assess_risk of the empty clause map returns Unknown with a non-empty
\* comment, and no input makes it divide by zero.
C3_EmptyMapUnknown ==
    pc = "done" =>
        /\ risk.raised # "ZeroDivisionError"
        /\ clause_map = <<>> => (risk.level = "Unknown" /\ Len(risk.comment) > 0)

\* C3 witness: assess_risk has returned for the empty clause map.
C3_Witness ==
    /\ pc = "done"
    /\ clause_map = <<>>
    /\ risk.raised = ""

(***************************************************************************)
(* Contract-type detection: detect_contract_type                           *)
(***************************************************************************)

UpperCase == "ABCDEFGHIJKLMNOPQRSTUVWXYZ"
LowerCase == "abcdefghijklmnopqrstuvwxyz"

\* str.lower() of one ASCII character.
LowerChar(c) ==
    IF \E k \in 1..Len(UpperCase) : CharAt(UpperCase, k) = c
    THEN CharAt(LowerCase, CHOOSE k \in 1..Len(UpperCase) : CharAt(UpperCase, k) = c)
    ELSE c

\* str.lower() of the characters lo..hi of s.
RECURSIVE LowerRange(_, _, _)
LowerRange(s, lo, hi) ==
    IF lo > hi THEN ""
    ELSE IF lo = hi THEN LowerChar(CharAt(s, lo))
    ELSE LET mid == (lo + hi) \div 2
         IN  LowerRange(s, lo, mid) \o LowerRange(s, mid + 1, hi)

\* (text or "").lower()
Lower(s) == LowerRange(s, 1, Len(s))

\* kw in t: kw occurs in t as a substring.
Contains(kw, t) ==
    \E i \in 1..(Len(t) - Len(kw) + 1) : SubSeq(t, i, i + Len(kw) - 1) = kw

\* The typographic apostrophe U+2019 of the second judgment signal.  A module
\* is ASCII text and cannot hold that character; the model writes it, in the
\* signal and in the texts alike, as the substitute character 0x1a, which like
\* U+2019 is one character long, its own lower case, no word character, no
\* white space and no full stop.
TypographicApostrophe == ""

\* judgment_signals, in declared order: "hon'ble" once with the ASCII
\* apostrophe and once with the typographic one.
judgment_signals ==
    << "hon'ble", "hon" \o TypographicApostrophe \o "ble",
       "judgment", "judgement", "order", "judgment of",
       "court", "petitioner", "respondent", "appellant", "civil appeal",
       "scc", "supreme court", "high court", "bench" >>

\* categories: the scoring map, in declared order.
categories ==
    << [label |-> "Employment Contract",
        keywords |-> << "employee", "employer", "salary", "joining", "resignation",
                        "notice period", "termination", "probation" >>],
       [label |-> "Lease Agreement",
        keywords |-> << "lease", "tenant", "landlord", "rent", "premises", "let",
                        "term of years", "security deposit" >>],
       [label |-> "Non-Disclosure Agreement",
        keywords |-> << "non-disclosure", "confidential", "confidentiality", "nda",
                        "proprietary information" >>],
       [label |-> "Loan Agreement",
        keywords |-> << "loan", "borrower", "lender", "interest", "repayment",
                        "installment", "security" >>],
       [label |-> "Sales Agreement",
        keywords |-> << "seller", "buyer", "goods", "purchase", "delivery", "invoice",
                        "sales agreement" >>],
       [label |-> "Partnership Agreement",
        keywords |-> << "partnership", "partner", "capital contribution",
                        "profit share", "partners" >>],
       [label |-> "Service Agreement",
        keywords |-> << "services", "service provider", "scope of work", "deliverables",
                        "service agreement", "statement of work" >>],
       [label |-> "Franchise Agreement",
        keywords |-> << "franchise", "franchisor", "franchisee", "royalty" >>] >>

\* The weights of a keyword phrase and of a single keyword, the least score
\* accepted outright, and the two length limits of the confidence heuristics.
PhraseWeight == 3
WordWeight == 1
MinTopScore == 3
LongTextLength == 300
ShortTextLength == 200

\* len(kw.split()): the number of maximal runs of non-blank characters.
WordCount(kw) ==
    Cardinality({i \in 1..Len(kw) :
                    /\ CharAt(kw, i) # " "
                    /\ (i = 1 \/ CharAt(kw, i - 1) = " ")})

\* Mutation of KeywordWeight: every keyword weighs 1.
KeywordWeight_flat(kw) == WordWeight

\* 3 if len(kw.split()) > 1 else 1
KeywordWeight(kw) == IF WordCount(kw) > 1 THEN PhraseWeight ELSE WordWeight

\* scores[label] after the loop over the first n keywords of the category.
RECURSIVE ScoreUpTo(_, _, _)
ScoreUpTo(keywords, n, t) ==
    IF n = 0 THEN 0
    ELSE ScoreUpTo(keywords, n - 1, t)
         + (IF Contains(keywords[n], t) THEN KeywordWeight(keywords[n]) ELSE 0)

\* scores, as the sequence of the categories' scores in declared order.
Scores(t) ==
    [c \in 1..Len(categories) |->
        ScoreUpTo(categories[c].keywords, Len(categories[c].keywords), t)]

\* Mutation of ArgMaxUpTo: on equal scores the later category wins.
RECURSIVE ArgMaxUpTo_last(_, _)
ArgMaxUpTo_last(scores, n) ==
    IF n = 1 THEN 1
    ELSE LET best == ArgMaxUpTo_last(scores, n - 1)
         IN  IF scores[n] >= scores[best] THEN n ELSE best

\* max(scores, key=...) over the first n categories: the index of the first
\* category with the greatest score (a later one replaces it only if greater).
RECURSIVE ArgMaxUpTo(_, _)
ArgMaxUpTo(scores, n) ==
    IF n = 1 THEN 1
    ELSE LET best == ArgMaxUpTo(scores, n - 1)
         IN  IF scores[n] > scores[best] THEN n ELSE best

\* for k in judgment_signals: if k in t
HasJudgmentSignal(t) ==
    \E k \in 1..Len(judgment_signals) : Contains(judgment_signals[k], t)

\* Mutation of ScoreAndSelect: no length test in the fallback, which is always
\* General Legal Document (the fallback of legal_analyzer.py).
ScoreAndSelect_general_only(t) ==
    LET scores    == Scores(t)
        top       == ArgMaxUpTo(scores, Len(categories))
        top_label == categories[top].label
        top_score == scores[top]
    IN  IF top_score >= MinTopScore THEN top_label
        ELSE IF top_score > 0 /\ Len(t) > LongTextLength THEN top_label
        ELSE "General Legal Document"

\* Mutation of ScoreAndSelect: a low-confidence winner accepted from 300
\* characters on, not from 301.
ScoreAndSelect_long_inclusive(t) ==
    LET scores    == Scores(t)
        top       == ArgMaxUpTo(scores, Len(categories))
        top_label == categories[top].label
        top_score == scores[top]
    IN  IF top_score >= MinTopScore THEN top_label
        ELSE IF top_score > 0 /\ Len(t) >= LongTextLength THEN top_label
        ELSE IF Len(t) < ShortTextLength THEN "Short Text / Unknown"
        ELSE "General Legal Document"

\* The part of detect_contract_type after the override: scoring, selection and
\* the confidence heuristics, on the lower-cased text t.
ScoreAndSelect(t) ==
    LET scores    == Scores(t)
        top       == ArgMaxUpTo(scores, Len(categories))
        top_label == categories[top].label
        top_score == scores[top]
    IN  IF top_score >= MinTopScore THEN top_label
        ELSE IF top_score > 0 /\ Len(t) > LongTextLength THEN top_label
        ELSE IF Len(t) < ShortTextLength THEN "Short Text / Unknown"
        ELSE "General Legal Document"

\* Mutation of detect_contract_type: the signals are looked for in the text as
\* given, not in its lower-cased form.
detect_contract_type_cased(txt) ==
    IF HasJudgmentSignal(txt) THEN "Court Judgment / Order"
    ELSE ScoreAndSelect(Lower(txt))

\* detect_contract_type(text)
detect_contract_type(txt) ==
    LET t == Lower(txt)
    IN  IF HasJudgmentSignal(t) THEN "Court Judgment / Order"
        ELSE ScoreAndSelect(t)

(***************************************************************************)
(* Specification of the classifier: a text is chosen, detect_contract_type *)
(* is applied to it.  A text is a few sentences, padded with a filler      *)
(* letter up to a length at or next to one of the two length limits.       *)
(***************************************************************************)

\* The sentences the classifier's texts are made of.
Sentences ==
    << "The Employee gets a salary until termination. ",
       "The employer pays. ",
       "The tenant pays rent under the lease. ",
       "The borrower repays the loan to the lender. ",
       "The PETITIONER appeals. ",
       "Goods cross the border. ",
       "A security deposit is due. ",
       "Interest accrues. ",
       "The Hon" \o TypographicApostrophe \o "ble member spoke. " >>

\* Largest number of sentences of a text.
MaxSentences == 2

\* The sentences numbered by ps, one after the other.
RECURSIVE Join(_, _)
Join(parts, ps) ==
    IF ps = <<>> THEN "" ELSE parts[Head(ps)] \o Join(parts, Tail(ps))

\* s, followed by as many filler letters as it takes to reach length n.
PadTo(s, n) == IF Len(s) >= n THEN s ELSE s \o Rep("z", n - Len(s))

\* The lengths texts are padded to: none, and those around the two limits.
PaddedLengths ==
    {0, ShortTextLength - 1, ShortTextLength, LongTextLength, LongTextLength + 1}

ClassifierTexts ==
    { PadTo(Join(Sentences, ps), n) :
        ps \in UNION {[1..k -> 1..Len(Sentences)] : k \in 0..MaxSentences},
        n \in PaddedLengths }

InitClassify ==
    /\ pc = "start"
    /\ AppUnused
    /\ text \in ClassifierTexts
    /\ doc_type = NotComputed
    /\ clause_map = <<>> /\ risk = NotComputed /\ clauses = NotComputed
    /\ text1 = "" /\ text2 = "" /\ similarity = NotComputed

DetectContractType ==
    /\ pc = "start"
    /\ doc_type' = detect_contract_type(text)
    /\ pc' = "done"
    /\ UNCHANGED <<clause_map, risk, text, clauses, text1, text2, similarity, appvars>>

NextClassify == DetectContractType

SpecClassify == InitClassify /\ [][NextClassify]_vars

(***************************************************************************)
(* Claims about the classifier (checked under SpecClassify)                *)
(***************************************************************************)

\* What the claims say of the text, read off its lower-cased form:
\*   signal: some judicial-signal keyword occurs in it;
\*   score:  each category's score as the specification words it, 3 for each
\*           multi-word keyword and 1 for each single-word keyword it contains;
\*   top:    the greatest score;
\*   winner: the first-declared category that has the greatest score.
Stated ==
    LET t      == Lower(text)
        signal == \E k \in DOMAIN judgment_signals : Contains(judgment_signals[k], t)
        score  == [c \in DOMAIN categories |->
                     LET kws   == categories[c].keywords
                         hits  == {k \in DOMAIN kws : Contains(kws[k], t)}
                         multi == {k \in hits : Contains(" ", kws[k])}
                     IN  3 * Cardinality(multi) + Cardinality(hits \ multi)]
        top    == Max({score[c] : c \in DOMAIN categories})
    IN  [signal |-> signal,
         score  |-> score,
         top    |-> top,
         winner |-> Min({c \in DOMAIN categories : score[c] = top})]

\* C5: if a judicial-signal keyword occurs anywhere in the lower-cased text,
\* detect_contract_type returns Court Judgment / Order, whatever the category
\* scores and the length of the text.
C5_JudgmentOverride ==
    LET st == Stated IN
    (pc = "done" /\ st.signal) => doc_type = "Court Judgment / Order"

\* C5 witness: a text with petitioner, employee, salary and termination, whose
\* Employment Contract score reaches 3, has been classified a court judgment.
C5_Witness ==
    LET st == Stated IN
    /\ pc = "done"
    /\ \A w \in {"petitioner", "employee", "salary", "termination"} : Contains(w, Lower(text))
    /\ st.score[1] >= 3
    /\ doc_type = "Court Judgment / Order"

\* C6, as stated: every text shorter than 200 characters is classified
\* Short Text / Unknown, whatever keywords it contains.
C6_AsStated ==
    (pc = "done" /\ Len(text) < 200) => doc_type = "Short Text / Unknown"

\* C6, amended: every text shorter than 200 characters that contains no
\* judicial-signal keyword and in which no category scores 3 or more is
\* classified Short Text / Unknown.
C6_ShortText ==
    LET st == Stated IN
    (pc = "done" /\ Len(text) < 200 /\ ~st.signal /\ st.top < 3)
        => doc_type = "Short Text / Unknown"

\* C6 witness: a short text with a keyword score of 1 or 2 and no judicial
\* signal has been classified Short Text / Unknown.
C6_Witness ==
    LET st == Stated IN
    /\ pc = "done"
    /\ Len(text) < 200
    /\ ~st.signal
    /\ st.top \in {1, 2}
    /\ doc_type = "Short Text / Unknown"

\* C7, as stated: with no judicial signal and a winning score below 3 the
\* result is General Legal Document, unless the text is longer than 300
\* characters, and then it is the maximum-scoring category.
C7_AsStated ==
    LET st == Stated IN
    (pc = "done" /\ ~st.signal /\ st.top < 3) =>
        IF Len(text) > 300
        THEN doc_type = categories[st.winner].label
        ELSE doc_type = "General Legal Document"

\* C7, amended: with no judicial signal and a winning score below 3, the result
\* is the maximum-scoring category when that score is positive and the text is
\* longer than 300 characters; otherwise it is Short Text / Unknown for a text
\* shorter than 200 characters and General Legal Document for any other text.
C7_LowConfidence ==
    LET st == Stated IN
    (pc = "done" /\ ~st.signal /\ st.top < 3) =>
        IF st.top > 0 /\ Len(text) > 300
        THEN doc_type = categories[st.winner].label
        ELSE IF Len(text) < 200
        THEN doc_type = "Short Text / Unknown"
        ELSE doc_type = "General Legal Document"

\* C7 witness: a text longer than 300 characters whose best score is 1 or 2,
\* held by a category other than the first, has been given that category.
C7_Witness ==
    LET st == Stated IN
    /\ pc = "done"
    /\ ~st.signal
    /\ st.top \in {1, 2}
    /\ Len(text) > 300
    /\ st.winner > 1
    /\ doc_type = categories[st.winner].label

\* C8: with no judicial signal and some category scoring at least 3, the result
\* is the category with the maximum score (3 per multi-word keyword, 1 per
\* single-word keyword contained in the lower-cased text), the first-declared
\* one when several share the maximum.
C8_MaxScoreFirstDeclared ==
    LET st == Stated IN
    (pc = "done" /\ ~st.signal /\ st.top >= 3) =>
        doc_type = categories[st.winner].label

\* C8 witness: two categories share a maximum of at least 3, neither being the
\* first of the taxonomy, and the earlier-declared of them has been returned.
C8_Witness ==
    LET st == Stated IN
    /\ pc = "done"
    /\ ~st.signal
    /\ st.top >= 3
    /\ st.winner > 1
    /\ \E c \in DOMAIN categories : c > st.winner /\ st.score[c] = st.top
    /\ doc_type = categories[st.winner].label

(***************************************************************************)
(* Clause detection: detect_clauses_with_excerpts                          *)
(***************************************************************************)

\* clauses: the table of the clause categories and their keywords, in declared
\* order.
clause_keywords ==
    << [name |-> "Confidentiality",
        keys |-> << "confidential", "non-disclosure", "privacy", "proprietary" >>],
       [name |-> "Termination",
        keys |-> << "terminate", "termination", "expiry", "expire", "cancel" >>],
       [name |-> "Payment",
        keys |-> << "payment", "fee", "compensation", "remuneration", "invoice" >>],
       [name |-> "Liability",
        keys |-> << "liability", "liable", "damages", "responsible" >>],
       [name |-> "Dispute Resolution",
        keys |-> << "dispute", "arbitration", "mediation", "jurisdiction" >>],
       [name |-> "Governing Law",
        keys |-> << "governing law", "laws of", "jurisdiction" >>],
       [name |-> "Intellectual Property",
        keys |-> << "intellectual property", "copyright", "patent", "trademark",
                    "ownership" >>],
       [name |-> "Non-Compete",
        keys |-> << "non-compete", "restrict", "competition", "restrictive covenant" >>],
       [name |-> "Indemnity",
        keys |-> << "indemnify", "indemnity", "hold harmless" >>],
       [name |-> "Force Majeure",
        keys |-> << "force majeure", "unforeseeable", "beyond control", "act of god" >>] >>

\* The bound of each [^.]{0,300} of the pattern.
ExcerptWindow == 300

Digits == "0123456789"

\* \w on an ASCII character: a letter, a digit or the underscore.
IsWordChar(c) ==
    \/ c = "_"
    \/ \E k \in 1..Len(LowerCase) : CharAt(LowerCase, k) = c \/ CharAt(UpperCase, k) = c
    \/ \E k \in 1..Len(Digits) : CharAt(Digits, k) = c

\* The character before position p of t is a word character (none before 1).
WordBefore(t, p) == p > 1 /\ IsWordChar(CharAt(t, p - 1))
\* The character at position p of t is a word character (none after the end).
WordAt(t, p) == p <= Len(t) /\ IsWordChar(CharAt(t, p))

\* \b at position p of t: a word character on exactly one side.
WordBoundary(t, p) == WordBefore(t, p) # WordAt(t, p)

\* The positions q of t where \b k \b matches under re.IGNORECASE; tl is the
\* lower-cased t (the keywords are lower-case ASCII).
Occurrences(k, t, tl) ==
    {q \in 1..(Len(t) - Len(k) + 1) :
        /\ SubSeq(tl, q, q + Len(k) - 1) = k
        /\ WordBoundary(t, q)
        /\ WordBoundary(t, q + Len(k))}

\* The positions of the full stops of t.
Dots(t) == {i \in 1..Len(t) : CharAt(t, i) = "."}

\* The leftmost position from which [^.]{0,300} reaches position q: at most
\* 300 characters before q, and after the last full stop before q.
EarliestStart(q, dots) ==
    Max({1, q - ExcerptWindow} \cup {i + 1 : i \in {d \in dots : d < q}})

\* Mutation of Search: the pattern puts no limit on the characters after the
\* keyword (as [^.]* would).
Search_unbounded_after(k, t, tl) ==
    LET occ == Occurrences(k, t, tl)
    IN  IF occ = {} THEN <<>>
        ELSE LET dots  == Dots(t)
                 first == Min({EarliestStart(q, dots) : q \in occ})
                 kwpos == Max({q \in occ : q >= first /\ EarliestStart(q, dots) <= first})
                 kwend == kwpos + Len(k) - 1
                 stop  == Min({Len(t) + 1} \cup {d \in dots : d > kwend})
             IN  <<first, stop - 1>>

\* pattern.search(text) for keyword k: the span <<first, last>> of m.group(0),
\* or <<>> when there is no match.  The search succeeds at the leftmost start
\* from which some occurrence of the keyword can be reached; from there the
\* greedy first [^.]{0,300} runs to the last occurrence it can reach, and the
\* greedy second one takes up to 300 characters short of the next full stop.
Search(k, t, tl) ==
    LET occ == Occurrences(k, t, tl)
    IN  IF occ = {} THEN <<>>
        ELSE LET dots  == Dots(t)
                 first == Min({EarliestStart(q, dots) : q \in occ})
                 kwpos == Max({q \in occ : q >= first /\ EarliestStart(q, dots) <= first})
                 kwend == kwpos + Len(k) - 1
                 stop  == Min({Len(t) + 1} \cup {d \in dots : d > kwend})
                 last  == Min({kwend + ExcerptWindow, stop - 1})
             IN  <<first, last>>

\* The characters str.strip() removes and the regex \s matches, among the
\* ASCII characters (str.isspace() is true of them): the space, \t \n \v \f
\* \r and the four separators 0x1c-0x1f.  The module writes \v and the
\* separators as the characters themselves, there being no escape for them.
IsSpace(c) == c \in {" ", "\t", "\n", "", "\f", "\r", "", "", "", ""}

\* s.strip()
Strip(s) ==
    LET keep == {i \in 1..Len(s) : ~IsSpace(CharAt(s, i))}
    IN  IF keep = {} THEN "" ELSE SubSeq(s, Min(keep), Max(keep))

\* s[lo..hi].replace("\n", " ")
RECURSIVE ReplaceNewlines(_, _, _)
ReplaceNewlines(s, lo, hi) ==
    IF lo > hi THEN ""
    ELSE IF lo = hi THEN (IF CharAt(s, lo) = "\n" THEN " " ELSE CharAt(s, lo))
    ELSE LET mid == (lo + hi) \div 2
         IN  ReplaceNewlines(s, lo, mid) \o ReplaceNewlines(s, mid + 1, hi)

\* m.group(0).strip().replace("\n", " ").strip()
Excerpt(t, span) ==
    LET excerpt_candidate == Strip(SubSeq(t, span[1], span[2]))
    IN  Strip(ReplaceNewlines(excerpt_candidate, 1, Len(excerpt_candidate)))

\* Mutation of FirstMatch: of the keywords that match, the one that occurs
\* first in the text is taken, not the one declared first.
FirstMatch_earliest_in_text(keys, i, t, tl) ==
    LET ms == {j \in i..Len(keys) : Occurrences(keys[j], t, tl) # {}}
    IN  IF ms = {} THEN [found |-> FALSE, excerpt |-> ""]
        ELSE LET best == CHOOSE j \in ms : \A j2 \in ms :
                            \/ Min(Occurrences(keys[j], t, tl)) < Min(Occurrences(keys[j2], t, tl))
                            \/ /\ Min(Occurrences(keys[j], t, tl)) = Min(Occurrences(keys[j2], t, tl))
                               /\ j <= j2
             IN  [found |-> TRUE, excerpt |-> Excerpt(t, Search(keys[best], t, tl))]

\* The inner loop over keys[i..]: the (found, excerpt) it leaves, stopping at
\* the first keyword that matches.
RECURSIVE FirstMatch(_, _, _, _)
FirstMatch(keys, i, t, tl) ==
    IF i > Len(keys) THEN [found |-> FALSE, excerpt |-> ""]
    ELSE LET m == Search(keys[i], t, tl)
         IN  IF m # <<>>
             THEN [found |-> TRUE, excerpt |-> Excerpt(t, m)]
             ELSE FirstMatch(keys, i + 1, t, tl)

\* Mutation of DictSet: only the categories found are recorded (as
\* detect_clauses of legal_analyzer.py does).
DictSet_found_only(out, key, value) ==
    IF value.found
    THEN Append(out, [name |-> key, found |-> TRUE, excerpt |-> value.excerpt])
    ELSE out

\* out[key] = value on a dict kept as the sequence of its entries in insertion
\* order: the entry of an existing key is replaced in place, a new one appended.
DictSet(out, key, value) ==
    LET entry == [name |-> key, found |-> value.found, excerpt |-> value.excerpt]
    IN  IF \E i \in DOMAIN out : out[i].name = key
        THEN [i \in DOMAIN out |-> IF out[i].name = key THEN entry ELSE out[i]]
        ELSE Append(out, entry)

\* out after the outer loop has gone through the first n categories.
RECURSIVE OutUpTo(_, _, _)
OutUpTo(n, t, tl) ==
    IF n = 0 THEN <<>>
    ELSE DictSet(OutUpTo(n - 1, t, tl),
                 clause_keywords[n].name,
                 FirstMatch(clause_keywords[n].keys, 1, t, tl))

\* detect_clauses_with_excerpts(text)
detect_clauses_with_excerpts(t) == OutUpTo(Len(clause_keywords), t, Lower(t))

(***************************************************************************)
(* Specification of the clause detector: a text is chosen,                 *)
(* detect_clauses_with_excerpts is applied to it.  A text is a few         *)
(* passages, with or without a run of filler letters before and after.     *)
(***************************************************************************)

\* The passages the clause detector's texts are made of (the second starts
\* with a form feed, the white space that separates pages).
Passages ==
    << "Either party may cancel or terminate this Agreement. ",
       "\fThe contract was terminated early\n",
       "Payment of the FEE\nis due on Termination. ",
       "It is governed by the laws of India and its jurisdiction ",
       "Force Majeure and Non-Disclosure apply\n",
       "No party is liable for damages. " >>

\* Largest number of passages of a text.
MaxPassages == 2

\* The lengths of the filler before and after the passages: none, and those
\* around the window of the pattern.
FillerBefore == {0, ExcerptWindow - 1, ExcerptWindow + 1}
FillerAfter == {0, ExcerptWindow + 1}

ClauseTexts ==
    { Rep("z", before) \o " " \o Join(Passages, ps) \o Rep("z", after) :
        ps \in UNION {[1..k -> 1..Len(Passages)] : k \in 1..MaxPassages},
        before \in FillerBefore, after \in FillerAfter }
    \cup {"", "zzz", "No clause here."}

InitClauses ==
    /\ pc = "start"
    /\ AppUnused
    /\ text \in ClauseTexts
    /\ clauses = NotComputed
    /\ clause_map = <<>> /\ risk = NotComputed /\ doc_type = NotComputed
    /\ text1 = "" /\ text2 = "" /\ similarity = NotComputed

DetectClauses ==
    /\ pc = "start"
    /\ clauses' = detect_clauses_with_excerpts(text)
    /\ pc' = "done"
    /\ UNCHANGED <<clause_map, risk, text, doc_type, text1, text2, similarity, appvars>>

NextClauses == DetectClauses

SpecClauses == InitClauses /\ [][NextClauses]_vars

(***************************************************************************)
(* Claims about the clause detector (checked under SpecClauses)            *)
(***************************************************************************)

\* C4: for every input text, the empty one included, the map returned by
\* detect_clauses_with_excerpts has exactly one entry for each declared clause
\* category, in declared order, and every entry that is not found has the
\* empty excerpt.
C4_EveryCategoryOnce ==
    pc = "done" =>
        /\ Len(clauses) = Len(ClauseNames)
        /\ \A i \in DOMAIN clauses :
              /\ clauses[i].name = ClauseNames[i]
              /\ clauses[i].found \in BOOLEAN
              /\ ~clauses[i].found => clauses[i].excerpt = ""

\* C4 witness: a text in which some category was found, with its excerpt, and
\* some other category was not.
C4_Witness ==
    /\ pc = "done"
    /\ \E i \in DOMAIN clauses : clauses[i].found /\ clauses[i].excerpt # ""
    /\ \E i \in DOMAIN clauses : ~clauses[i].found /\ clauses[i].excerpt = ""

\* The keyword k stands in s as a word of its own, letter case aside: it is
\* at some position of sl, the lower-cased s, with no letter, digit or
\* underscore right before it or right after it.
AsWholeWord(k, s, sl) ==
    \E q \in 1..(Len(s) - Len(k) + 1) :
        /\ SubSeq(sl, q, q + Len(k) - 1) = k
        /\ (q = 1 \/ ~IsWordChar(CharAt(s, q - 1)))
        /\ (q + Len(k) > Len(s) \/ ~IsWordChar(CharAt(s, q + Len(k))))

\* C17: a category is found exactly when one of its keywords matches in the
\* text, letter case aside (the pattern matches the keyword between word
\* boundaries); the excerpt is then taken around the first keyword in
\* declared order that matches, whether or not a later keyword occurs
\* earlier in the text: it holds that keyword and it holds no newline.
C17_FirstDeclaredKeyword ==
    pc = "done" =>
        LET tl == Lower(text)
        IN  \A n \in DOMAIN clauses :
               LET keys     == clause_keywords[n].keys
                   matching == {j \in DOMAIN keys : AsWholeWord(keys[j], text, tl)}
                   excerpt  == clauses[n].excerpt
               IN  /\ clauses[n].found <=> matching # {}
                   /\ clauses[n].found =>
                         /\ AsWholeWord(keys[Min(matching)], excerpt, Lower(excerpt))
                         /\ ~Contains("\n", excerpt)

\* C17 witness: "termination" stands in the first sentence of the text and
\* "terminate", which is declared before it, in the second: the excerpt of
\* Termination is taken from the second sentence.  The text holds a newline,
\* which the excerpt of Payment has as a space.
C17_Witness ==
    /\ pc = "done"
    /\ text = " Payment of the FEE\nis due on Termination. Either party may cancel or terminate this Agreement. "
    /\ clauses[2] = [name |-> "Termination", found |-> TRUE,
                     excerpt |-> "Either party may cancel or terminate this Agreement"]
    /\ clauses[3] = [name |-> "Payment", found |-> TRUE,
                     excerpt |-> "Payment of the FEE is due on Termination"]

\* C18 as stated: every excerpt is at most 300 characters long.
C18_AsStated ==
    pc = "done" => \A n \in DOMAIN clauses : Len(clauses[n].excerpt) <= 300

\* C18 amended: an excerpt is at most 300 characters, the keyword it was
\* taken around, and 300 characters more.
C18_WindowEachSide ==
    pc = "done" =>
        LET tl == Lower(text)
        IN  \A n \in DOMAIN clauses :
               LET keys     == clause_keywords[n].keys
                   matching == {j \in DOMAIN keys : AsWholeWord(keys[j], text, tl)}
               IN  Len(clauses[n].excerpt) <=
                      IF matching = {} THEN 0
                      ELSE ExcerptWindow + Len(keys[Min(matching)]) + ExcerptWindow

\* C18 witness: the excerpt of Governing Law has 300 characters before
\* "laws of" and 300 after it.
C18_Witness ==
    /\ pc = "done"
    /\ clauses[6].name = "Governing Law" /\ clauses[6].found
    /\ Len(clauses[6].excerpt) = ExcerptWindow + Len("laws of") + ExcerptWindow

(***************************************************************************)
(* Version comparison: compare_versions, with difflib.SequenceMatcher      *)
(* (isjunk = None, autojunk = True) as it calls it.  Indices are counted   *)
(* from 0 and ranges are half-open, as in difflib.                         *)
(***************************************************************************)

\* s[i], with i counted from 0.
At(s, i) == SubSeq(s, i + 1, i + 1)

\* The least length of b at which the autojunk heuristic applies, and the
\* divisor of its test.
AutoJunkLength == 200
AutoJunkDivisor == 100

\* __chain_b: bpopular, the elements of b that occur more than n // 100 + 1
\* times when n = len(b) >= 200.
Popular(b) ==
    LET n     == Len(b)
        ntest == n \div AutoJunkDivisor + 1
        elts  == {At(b, j) : j \in 0..(n - 1)}
    IN  IF n >= AutoJunkLength
        THEN {e \in elts : Cardinality({j \in 0..(n - 1) : At(b, j) = e}) > ntest}
        ELSE {}

\* __chain_b: b2j, which maps each element of b that is not popular to the
\* indices where it occurs.
B2J(b) ==
    LET elts == {At(b, j) : j \in 0..(Len(b) - 1)}
    IN  [e \in elts \ Popular(b) |-> {j \in 0..(Len(b) - 1) : At(b, j) = e}]

\* find_longest_match, one pass of the main loop, for index i of a.  st holds
\* besti, bestj, bestsize and j2len.  The inner loop visits the indices j of
\* b2j[a[i]] within [blo, bhi) in increasing order and moves the best match
\* only on a strictly longer one: it ends on the least j of the greatest new
\* length, if that length exceeds bestsize.
MainLoopStep(a, b2j, i, blo, bhi, st) ==
    LET js       == IF At(a, i) \in DOMAIN b2j
                    THEN {j \in b2j[At(a, i)] : j >= blo /\ j < bhi}
                    ELSE {}
        newj2len == [j \in js |->
                       (IF (j - 1) \in DOMAIN st.j2len THEN st.j2len[j - 1] ELSE 0) + 1]
        kmax     == IF js = {} THEN 0 ELSE Max({newj2len[j] : j \in js})
        jbest    == Min({j \in js : newj2len[j] = kmax})
    IN  IF newj2len # <<>> /\ kmax > st.bestsize
        THEN [besti |-> i - kmax + 1, bestj |-> jbest - kmax + 1,
              bestsize |-> kmax, j2len |-> newj2len]
        ELSE [st EXCEPT !.j2len = newj2len]

\* find_longest_match, the main loop for i in range(lo, hi), started in st:
\* the passes for lo .. hi-1 in this order.  (The range is halved, and the
\* state after its first half looked at before the second half starts, only to
\* keep the evaluation shallow; bestsize is never negative.)
RECURSIVE MainLoop(_, _, _, _, _, _, _)
MainLoop(a, b2j, lo, hi, blo, bhi, st) ==
    IF lo >= hi THEN st
    ELSE IF hi = lo + 1 THEN MainLoopStep(a, b2j, lo, blo, bhi, st)
    ELSE LET mid   == (lo + hi) \div 2
             first == MainLoop(a, b2j, lo, mid, blo, bhi, st)
         IN  IF first.bestsize >= 0
             THEN MainLoop(a, b2j, mid, hi, blo, bhi, first)
             ELSE first

\* The number of times the first extension loop runs: the match grows backwards
\* while the elements before it are equal (bjunk is empty: isjunk is None).
ExtendBack(a, b, alo, blo, besti, bestj) ==
    LET room == Min({besti - alo, bestj - blo})
    IN  Min({room} \cup {d \in 0..(room - 1) : At(a, besti - d - 1) # At(b, bestj - d - 1)})

\* The number of times the second extension loop runs: the match grows
\* forwards while the elements after it are equal.
ExtendForward(a, b, ahi, bhi, endi, endj) ==
    LET room == Min({ahi - endi, bhi - endj})
    IN  Min({room} \cup {d \in 0..(room - 1) : At(a, endi + d) # At(b, endj + d)})

\* find_longest_match(alo, ahi, blo, bhi): the match <<i, j, k>>.  The two
\* loops over junk elements never run, bjunk being empty.
find_longest_match(a, b, b2j, alo, ahi, blo, bhi) ==
    LET st   == MainLoop(a, b2j, alo, ahi, blo, bhi,
                         [besti |-> alo, bestj |-> blo, bestsize |-> 0, j2len |-> <<>>])
        back == ExtendBack(a, b, alo, blo, st.besti, st.bestj)
        i    == st.besti - back
        j    == st.bestj - back
        k    == st.bestsize + back
        fwd  == ExtendForward(a, b, ahi, bhi, i + k, j + k)
    IN  <<i, j, k + fwd>>

\* get_matching_blocks: the sum of the sizes of the matching blocks found in
\* a[alo:ahi] and b[blo:bhi], the longest match first, then those to its left
\* and to its right.
RECURSIVE MatchedIn(_, _, _, _, _, _, _)
MatchedIn(a, b, b2j, alo, ahi, blo, bhi) ==
    LET x == find_longest_match(a, b, b2j, alo, ahi, blo, bhi)
        i == x[1]
        j == x[2]
        k == x[3]
    IN  IF k = 0 THEN 0
        ELSE k + (IF alo < i /\ blo < j THEN MatchedIn(a, b, b2j, alo, i, blo, j) ELSE 0)
               + (IF i + k < ahi /\ j + k < bhi
                  THEN MatchedIn(a, b, b2j, i + k, ahi, j + k, bhi) ELSE 0)

\* SequenceMatcher(None, a, b): sum(triple[-1] for triple in get_matching_blocks())
Matches(a, b) == MatchedIn(a, b, B2J(b), 0, Len(a), 0, Len(b))

\* The number of bits of a double's significand.
DoubleBits == 53

\* A positive double is [mant, exp]: the bits of a whole number, most
\* significant first, and the power of two its last bit stands for.  The
\* loops over the bits are run by halves, the state after the first half
\* looked at before the second starts, only to keep the evaluation shallow.

\* n steps of the long division by d, started in st.  One step gives the
\* next bit of the quotient and what is left of the dividend (st.rem < d).
RECURSIVE QuotientBits(_, _, _)
QuotientBits(n, d, st) ==
    IF n = 0 THEN st
    ELSE IF n = 1
    THEN LET b == IF 2 * st.rem >= d THEN 1 ELSE 0
         IN  [bits |-> Append(st.bits, b), rem |-> 2 * st.rem - b * d]
    ELSE LET first == QuotientBits(n \div 2, d, st)
         IN  IF first.rem >= 0 THEN QuotientBits(n - n \div 2, d, first) ELSE first

\* The steps of the multiplication by k for the bits hi, hi - 1 .. lo.  One
\* step takes a bit of the multiplicand and the carry from the bits after it,
\* and gives a bit of the product and the next carry.
RECURSIVE TimesLoop(_, _, _, _, _)
TimesLoop(bits, lo, hi, k, st) ==
    IF lo > hi THEN st
    ELSE IF lo = hi
    THEN LET v == bits[lo] * k + st.carry
         IN  [bits |-> <<v % 2>> \o st.bits, carry |-> v \div 2]
    ELSE LET mid   == (lo + hi) \div 2
             first == TimesLoop(bits, mid + 1, hi, k, st)
         IN  IF first.carry >= 0 THEN TimesLoop(bits, lo, mid, k, first) ELSE first

\* The bits of a small whole number (none for 0).
RECURSIVE BitsOf(_)
BitsOf(n) == IF n = 0 THEN <<>> ELSE Append(BitsOf(n \div 2), n % 2)

\* The whole number a short run of bits stands for.
RECURSIVE BitsValue(_)
BitsValue(bits) ==
    IF bits = <<>> THEN 0
    ELSE IF Len(bits) = 1 THEN bits[1]
    ELSE LET mid == Len(bits) \div 2
         IN  BitsValue(SubSeq(bits, 1, mid)) * 2^(Len(bits) - mid)
             + BitsValue(SubSeq(bits, mid + 1, Len(bits)))

\* bits * k, for a small whole number k.
TimesBits(bits, k) ==
    LET st == TimesLoop(bits, 1, Len(bits), k, [bits |-> <<>>, carry |-> 0])
    IN  BitsOf(st.carry) \o st.bits

\* bits + 1
Increment(bits) ==
    LET zeros == {i \in 1..Len(bits) : bits[i] = 0}
    IN  IF zeros = {} THEN <<1>> \o [i \in 1..Len(bits) |-> 0]
        ELSE [i \in 1..Len(bits) |->
                IF i < Max(zeros) THEN bits[i] ELSE IF i = Max(zeros) THEN 1 ELSE 0]

\* The IEEE 754 rounding of a result (round to nearest, ties to even): the
\* bits kept, the first bit dropped and whether any later one is set.
RoundNearestEven(kept, exp, guard, sticky) ==
    IF guard = 1 /\ (sticky \/ kept[Len(kept)] = 1)
    THEN [mant |-> Increment(kept), exp |-> exp]
    ELSE [mant |-> kept, exp |-> exp]

\* n and the number of doublings that bring it to d or more.
RECURSIVE Normalised(_, _, _)
Normalised(n, d, s) ==
    IF n >= d THEN [n |-> n, shift |-> s] ELSE Normalised(2 * n, d, s + 1)

\* The double n / d, for whole numbers 0 < n <= d < 2^30: the quotient to 53
\* bits, rounded on the bit that follows and on the remainder.
FloatDiv(n, d) ==
    LET nm == Normalised(n, d, 0)
        q  == QuotientBits(DoubleBits, d, [bits |-> <<1>>, rem |-> nm.n - d])
    IN  RoundNearestEven(SubSeq(q.bits, 1, DoubleBits), 1 - DoubleBits - nm.shift,
                         q.bits[DoubleBits + 1], q.rem # 0)

\* The double x * k, for a small whole number k: the exact product, rounded
\* to 53 bits when it has more.
FloatTimes(x, k) ==
    LET p == TimesBits(x.mant, k)
    IN  IF Len(p) <= DoubleBits THEN [mant |-> p, exp |-> x.exp]
        ELSE RoundNearestEven(SubSeq(p, 1, DoubleBits), x.exp + Len(p) - DoubleBits,
                              p[DoubleBits + 1],
                              \E b \in (DoubleBits + 2)..Len(p) : p[b] = 1)

\* round(x, 2) of a double x with x.exp <= 0, in hundredths: the whole number
\* nearest to the exact value of 100 x, the even one of two that are equally
\* near (Python rounds the exact binary value correctly).
RoundHundredths(x) ==
    LET y     == TimesBits(x.mant, 100)
        n     == Len(y) + x.exp
        whole == IF n <= 0 THEN 0 ELSE BitsValue(SubSeq(y, 1, n))
        half  == n >= 0 /\ n < Len(y) /\ y[n + 1] = 1
        rest  == \E b \in (n + 2)..Len(y) : y[b] = 1
    IN  IF half /\ (rest \/ whole % 2 = 1) THEN whole + 1 ELSE whole

\* round(2.0 * matches / length * 100, 2), in hundredths, computed as Python
\* computes it: the double 2.0 * matches / length (ratio() of difflib), the
\* double product by 100, and the rounding of that double to two decimals.
\* When 20000 * matches / length is half-way between two whole numbers the
\* result depends on the errors of the two floating-point operations.
RoundedPercent(matches, length) ==
    IF matches = 0 THEN 0
    ELSE RoundHundredths(FloatTimes(FloatDiv(2 * matches, length), 100))

\* Mutation of compare_versions: the texts are not tested for emptiness, and
\* SequenceMatcher.ratio() is taken of whatever they are (it is 1.0 when both
\* sequences are empty).
compare_versions_unguarded(t1, t2) ==
    IF Len(t1) + Len(t2) = 0 THEN 10000
    ELSE RoundedPercent(Matches(t1, t2), Len(t1) + Len(t2))

\* compare_versions(text1, text2), in hundredths (10000 is 100.00).
compare_versions(t1, t2) ==
    IF t1 = "" \/ t2 = "" THEN 0
    ELSE RoundedPercent(Matches(t1, t2), Len(t1) + Len(t2))

(***************************************************************************)
(* Specification of the comparator: two texts are chosen, compare_versions *)
(* is applied to them.  The texts are the short ones over two letters, a   *)
(* few at the length where the autojunk heuristic sets in, and two whose   *)
(* score falls half-way between two hundredths.                            *)
(***************************************************************************)

\* Largest length of a short text.
MaxTextLen == 4

RECURSIVE StringsOfLength(_)
StringsOfLength(n) ==
    IF n = 0 THEN {""}
    ELSE {s \o c : s \in StringsOfLength(n - 1), c \in {"a", "b"}}

ShortTexts == UNION {StringsOfLength(n) : n \in 0..MaxTextLen}

LongTexts ==
    { Rep("a", AutoJunkLength - 1),
      Rep("a", AutoJunkLength),
      Rep("a", AutoJunkLength - 1) \o "b" }

\* Two texts of 160 characters that share their first 23: the exact score,
\* 14.375, is half-way between two hundredths, and the result is what the
\* floating-point operations make of it.
HalfWayTexts ==
    { Rep("x", 23) \o Rep("c", 137),
      Rep("x", 23) \o Rep("d", 137) }

CompareTexts == ShortTexts \cup LongTexts \cup HalfWayTexts

InitCompare ==
    /\ pc = "start"
    /\ AppUnused
    /\ text1 \in CompareTexts
    /\ text2 \in CompareTexts
    /\ similarity = NotComputed
    /\ clause_map = <<>> /\ risk = NotComputed
    /\ text = "" /\ doc_type = NotComputed /\ clauses = NotComputed

CompareVersions ==
    /\ pc = "start"
    /\ similarity' = compare_versions(text1, text2)
    /\ pc' = "done"
    /\ UNCHANGED <<clause_map, risk, text, doc_type, clauses, text1, text2, appvars>>

NextCompare == CompareVersions

SpecCompare == InitCompare /\ [][NextCompare]_vars

(***************************************************************************)
(* Claims about compare_versions.                                          *)
(***************************************************************************)

\* C9: compare_versions is symmetric: the score computed for (text1, text2)
\* equals the score compare_versions gives for (text2, text1).
C9_AsStated ==
    pc = "done" => similarity = compare_versions(text2, text1)

\* C10: compare_versions gives 100.00 for every non-empty text compared with
\* itself, and 0.0 whenever either text is empty, both being empty included.
C10_ReflexiveAndEmpty ==
    pc = "done" =>
        /\ (text1 # "" /\ text1 = text2) => similarity = 10000
        /\ (text1 = "" \/ text2 = "") => similarity = 0

\* C10 witness: a text long enough for the autojunk heuristic to drop its
\* letters from b2j was compared with itself and scored 100.00.
C10_Witness ==
    /\ pc = "done"
    /\ text1 = text2
    /\ Len(text1) >= AutoJunkLength
    /\ Popular(text2) # {}
    /\ similarity = 10000


(***************************************************************************)
(* Text extraction: extract_text_from_pdf and run_ocr_on_pdf of            *)
(* legal_core.py, and extract_text_with_ocr of app.py.  A PDF is the       *)
(* sequence of its pages; a page has a text layer, which PyPDF2 reads, and *)
(* a picture, which Tesseract reads, and either reading of it yields a     *)
(* text, yields None or raises.  The libraries may be missing (the names   *)
(* PdfReader, convert_from_path, pytesseract are then None), and opening   *)
(* or rasterizing the file may raise.                                      *)
(***************************************************************************)

\* What reading one page yields.
Yields(s) == [kind |-> "text", value |-> s]
YieldsNone == [kind |-> "None", value |-> ""]
Raises == [kind |-> "raise", value |-> ""]

\* What a function call comes to: an exception raised, None returned, or a
\* string returned.  error is whether the function reported a failure on the
\* page (st.error).
Raised == [raised |-> TRUE, none |-> FALSE, value |-> "", error |-> FALSE]
Returned(s) == [raised |-> FALSE, none |-> FALSE, value |-> s, error |-> FALSE]
ReturnedAfterError(s) == [raised |-> FALSE, none |-> FALSE, value |-> s, error |-> TRUE]

\* sep.join(parts)
RECURSIVE JoinWith(_, _)
JoinWith(sep, parts) ==
    IF parts = <<>> THEN ""
    ELSE IF Len(parts) = 1 THEN parts[1]
    ELSE parts[1] \o sep \o JoinWith(sep, Tail(parts))

\* The strings a loop appends to its list: of the pages' readings, the texts
\* that are not empty (None, and "" too, fail the test `if pg_text:`; a
\* reading that raised was replaced by None or "" in the except clause).
RECURSIVE Appended(_)
Appended(readings) ==
    IF readings = <<>> THEN <<>>
    ELSE LET r == Head(readings)
         IN  (IF r.kind = "text" /\ r.value # "" THEN <<r.value>> ELSE <<>>)
             \o Appended(Tail(readings))

\* Mutation of extract_text_from_pdf: no try block around the opening of the
\* file.
extract_text_from_pdf_unguarded(e) ==
    IF ~e.PdfReader THEN Returned("")
    ELSE IF ~e.opens THEN Raised
    ELSE Returned(Strip(JoinWith("\n", Appended([i \in DOMAIN e.pages |-> e.pages[i].layer]))))

\* extract_text_from_pdf(path), in the environment e.
extract_text_from_pdf(e) ==
    IF ~e.PdfReader THEN Returned("")
    ELSE IF ~e.opens THEN Returned("")
    ELSE Returned(Strip(JoinWith("\n", Appended([i \in DOMAIN e.pages |-> e.pages[i].layer]))))

\* Mutation of run_ocr_on_pdf: a page whose recognition raises makes the
\* whole extraction fail.
run_ocr_on_pdf_all_or_nothing(e) ==
    IF ~e.convert_from_path \/ ~e.pytesseract THEN Returned("")
    ELSE IF ~e.rasterizes THEN Returned("")
    ELSE IF \E i \in DOMAIN e.pages : e.pages[i].scan.kind = "raise" THEN Returned("")
    ELSE Returned(Strip(JoinWith("\n", Appended([i \in DOMAIN e.pages |-> e.pages[i].scan]))))

\* run_ocr_on_pdf(path), in the environment e.
run_ocr_on_pdf(e) ==
    IF ~e.convert_from_path \/ ~e.pytesseract THEN Returned("")
    ELSE IF ~e.rasterizes THEN Returned("")
    ELSE Returned(Strip(JoinWith("\n", Appended([i \in DOMAIN e.pages |-> e.pages[i].scan]))))

\* The pages before the first one whose recognition raises: those the loop of
\* extract_text_with_ocr gets through.
RECURSIVE Recognised(_)
Recognised(scans) ==
    IF scans = <<>> \/ Head(scans).kind = "raise" THEN <<>>
    ELSE <<Head(scans).value>> \o Recognised(Tail(scans))

\* extract_text_with_ocr(pdf_path) of app.py, in the environment e.  app.py
\* imports convert_from_path and pytesseract itself; they are at hand whenever
\* the dashboard runs.
extract_text_with_ocr(e) ==
    IF ~e.rasterizes THEN ReturnedAfterError("")
    ELSE LET scans == [i \in DOMAIN e.pages |-> e.pages[i].scan]
             t     == Strip(JoinWith("", Recognised(scans)))
         IN  IF \E i \in DOMAIN scans : scans[i].kind = "raise"
             THEN ReturnedAfterError(t)
             ELSE Returned(t)

(***************************************************************************)
(* Specification of the extractors: a PDF and the libraries at hand are    *)
(* chosen, and one of the three extractors is applied.                     *)
(***************************************************************************)

\* Largest number of pages of a PDF.
MaxPages == 2

\* The texts a page may hold; the last ends as Tesseract ends a page, with a
\* form feed.
PageTexts == {"", " Rent is due.\n", "Signed.\n\f"}

\* What the text layer and the picture of a page may yield.
Layers == {Yields(t) : t \in PageTexts} \cup {YieldsNone, Raises}
Scans == {Yields(t) : t \in PageTexts} \cup {Raises}

\* The PDFs of at most n pages.
Pdfs(n) == UNION {[1..k -> [layer : Layers, scan : Scans]] : k \in 0..n}

ExtractEnvs ==
    [PdfReader : BOOLEAN, convert_from_path : BOOLEAN, pytesseract : BOOLEAN,
     opens : BOOLEAN, rasterizes : BOOLEAN, pages : Pdfs(MaxPages)]

InitExtract ==
    /\ pc = "start"
    /\ env \in ExtractEnvs
    /\ outcome = NotComputed
    /\ events = <<>>
    /\ summary = NotComputed /\ history = <<>> /\ sessions = <<>>
    /\ clause_map = <<>> /\ risk = NotComputed
    /\ text = "" /\ doc_type = NotComputed /\ clauses = NotComputed
    /\ text1 = "" /\ text2 = "" /\ similarity = NotComputed

\* What an extractor leaves alone.
ExtractFrame ==
    UNCHANGED <<clause_map, risk, text, doc_type, clauses, text1, text2, similarity,
                env, summary, history, sessions>>

ExtractTextFromPdf ==
    /\ pc = "start"
    /\ outcome' = extract_text_from_pdf(env)
    /\ events' = <<"extract_text_from_pdf">>
    /\ pc' = "done"
    /\ ExtractFrame

RunOcrOnPdf ==
    /\ pc = "start"
    /\ outcome' = run_ocr_on_pdf(env)
    /\ events' = <<"run_ocr_on_pdf">>
    /\ pc' = "done"
    /\ ExtractFrame

ExtractTextWithOcr ==
    /\ pc = "start"
    /\ outcome' = extract_text_with_ocr(env)
    /\ events' = <<"extract_text_with_ocr">>
    /\ pc' = "done"
    /\ ExtractFrame

NextExtract == ExtractTextFromPdf \/ RunOcrOnPdf \/ ExtractTextWithOcr

SpecExtract == InitExtract /\ [][NextExtract]_vars

(***************************************************************************)
(* Claims about the extractors.                                            *)
(***************************************************************************)

\* The extractor that ran.
Ran(f) == pc = "done" /\ events = <<f>>

\* C14: extract_text_from_pdf and run_ocr_on_pdf raise nothing and return a
\* string, never None; the string is empty when the library they need is
\* missing and when opening or rasterizing the file fails.
C14_DegradeToEmpty ==
    /\ Ran("extract_text_from_pdf") =>
          /\ ~outcome.raised /\ ~outcome.none
          /\ (~env.PdfReader \/ ~env.opens) => outcome.value = ""
    /\ Ran("run_ocr_on_pdf") =>
          /\ ~outcome.raised /\ ~outcome.none
          /\ (~env.convert_from_path \/ ~env.pytesseract \/ ~env.rasterizes)
                => outcome.value = ""

\* C14 witness: PyPDF2 is at hand, the file has a page with a text layer, and
\* opening it failed: extract_text_from_pdf returned the empty string.
C14_Witness ==
    /\ Ran("extract_text_from_pdf")
    /\ env.PdfReader /\ ~env.opens
    /\ \E i \in DOMAIN env.pages : env.pages[i].layer = Yields("Signed.\n\f")
    /\ outcome = Returned("")

\* Recognition is attempted on the pages: the libraries the extractor that ran
\* needs are at hand and the file was rasterized.
OcrReachedPages ==
    \/ Ran("extract_text_with_ocr") /\ env.rasterizes
    \/ Ran("run_ocr_on_pdf") /\ env.convert_from_path /\ env.pytesseract /\ env.rasterizes

\* Recognition raises on page i.
FailsOn(i) == env.pages[i].scan.kind = "raise"

\* C15 as stated: if recognition fails on any page, the result of the OCR
\* extractor is the empty string.
C15_AsStated ==
    (OcrReachedPages /\ \E i \in DOMAIN env.pages : FailsOn(i)) => outcome.value = ""

\* C15 amended: a page on which recognition fails costs only part of the
\* text.  run_ocr_on_pdf leaves that page out and returns what was recognised
\* on every other page; extract_text_with_ocr reports the failure and returns
\* what was recognised on the pages before it.  The result is empty exactly
\* when none of those pages holds anything but white space.
C15_PartialText ==
    /\ (Ran("run_ocr_on_pdf") /\ OcrReachedPages) =>
          LET kept == {i \in DOMAIN env.pages : ~FailsOn(i)}
          IN  /\ \A i \in kept : Contains(Strip(env.pages[i].scan.value), outcome.value)
              /\ outcome.value = "" <=> \A i \in kept : Strip(env.pages[i].scan.value) = ""
    /\ (Ran("extract_text_with_ocr") /\ OcrReachedPages) =>
          LET kept == {i \in DOMAIN env.pages : \A j \in 1..i : ~FailsOn(j)}
          IN  /\ \A i \in kept : Contains(Strip(env.pages[i].scan.value), outcome.value)
              /\ outcome.value = "" <=> \A i \in kept : Strip(env.pages[i].scan.value) = ""
              /\ outcome.error <=> \E i \in DOMAIN env.pages : FailsOn(i)

\* C15 witness: recognition failed on the first page of two and run_ocr_on_pdf
\* returned the text of the second.
C15_Witness ==
    /\ Ran("run_ocr_on_pdf") /\ OcrReachedPages
    /\ Len(env.pages) = 2 /\ FailsOn(1)
    /\ env.pages[2].scan = Yields(" Rent is due.\n")
    /\ outcome = Returned("Rent is due.")

(***************************************************************************)
(* Summarization: summarize_text.                                          *)
(***************************************************************************)

\* The number of sentences main_dashboard asks for, and the length a sentence
\* must exceed to be chosen.
SummarySentences == 4
SubstantiveLength == 30

\* The positions where re.split(r'(?<=[.!?])\s+', t) cuts: a white-space
\* character right after a full stop, an exclamation or a question mark.
CutStarts(t) ==
    {i \in 2..Len(t) : IsSpace(CharAt(t, i)) /\ CharAt(t, i - 1) \in {".", "!", "?"}}

\* The last position of the run of white space that starts at i.
RunEnd(t, i) ==
    Min({j \in i..Len(t) : j = Len(t) \/ ~IsSpace(CharAt(t, j + 1))})

\* re.split(r'(?<=[.!?])\s+', t), for the part of t from position from on.
RECURSIVE SplitFrom(_, _)
SplitFrom(t, from) ==
    LET starts == {i \in CutStarts(t) : i >= from}
    IN  IF starts = {} THEN <<SubSeq(t, from, Len(t))>>
        ELSE <<SubSeq(t, from, Min(starts) - 1)>>
             \o SplitFrom(t, RunEnd(t, Min(starts)) + 1)

\* The loop of summarize_text: the stripped sentences longer than 30
\* characters, up to n of them.  The test of len(chosen) follows each
\* sentence, chosen or not.
RECURSIVE Chosen(_, _, _)
Chosen(sents, n, chosen) ==
    IF sents = <<>> THEN chosen
    ELSE LET st   == Strip(Head(sents))
             next == IF Len(st) > SubstantiveLength THEN Append(chosen, st) ELSE chosen
         IN  IF Len(next) >= n THEN next ELSE Chosen(Tail(sents), n, next)

\* summarize_text(text, n)
summarize_text(t, n) ==
    IF t = "" \/ Len(Strip(t)) = 0 THEN "No readable content found."
    ELSE LET sents == SplitFrom(t, 1)
         IN  IF Len(sents) <= n THEN Strip(JoinWith(" ", sents))
             ELSE LET chosen == Chosen(sents, n, <<>>)
                  IN  IF chosen = <<>>
                      THEN Strip(JoinWith(" ", SubSeq(sents, 1, n)))
                      ELSE Strip(JoinWith(" ", chosen))

(***************************************************************************)
(* The history file: save_history of app.py and the Clear History button   *)
(* of main_dashboard.  The file holds the text json.dumps(history,         *)
(* indent=2) of a dictionary that maps a user to the list of that user's   *)
(* entries; json.loads reads a text that was written whole back as the     *)
(* dictionary written, the users and the fields of an entry being strings. *)
(* A dictionary is modelled by the function from its users to their lists. *)
(* Nothing in app.py locks the file, and Streamlit runs the script of each *)
(* session in a thread of its own: between the reading of the file by one  *)
(* session and its writing, other sessions may read and write.             *)
(* HISTORY_FILE.write_text opens the file for writing, which empties it,   *)
(* and then writes the text from the start of the file, over whatever      *)
(* another session has written there since; of a longer text the end       *)
(* stays.  The file is modelled by the dictionary whose text was written   *)
(* last (last, <<>> when nothing was written since the file was emptied)   *)
(* and the number of characters the file holds (size).  A text is written  *)
(* by one call of the operating system, the texts being shorter than the   *)
(* buffer of the file object.                                              *)
(***************************************************************************)

\* The dictionary {}.
EmptyHistory == <<>>

\* history.get(user, [])
HistoryOf(h, user) == IF user \in DOMAIN h THEN h[user] ELSE <<>>

\* The entries of a list.
Entries(list) == {list[i] : i \in DOMAIN list}

\* The dictionary h with h[user] = list.
WithList(h, user, list) ==
    [u \in DOMAIN h \cup {user} |-> IF u = user THEN list ELSE h[u]]

\* Mutation of save_history: the entry is appended without looking for it
\* in the list.
save_history_always_appends(h, user, dtype, risk_level, filename) ==
    WithList(h, user,
             Append(HistoryOf(h, user), [file |-> filename, type |-> dtype, risk |-> risk_level]))

\* Lines 285-289 of save_history(user, doc_type, risk, filename): the
\* dictionary written, h being the dictionary read.
save_history(h, user, dtype, risk_level, filename) ==
    LET entry == [file |-> filename, type |-> dtype, risk |-> risk_level]
        list  == HistoryOf(h, user)
    IN  WithList(h, user, IF entry \in Entries(list) THEN list ELSE Append(list, entry))

\* Line 472: the dictionary written by a click on Clear History, h being the
\* dictionary read at line 453.
clear_history(h, user) == WithList(h, user, <<>>)

RECURSIVE Sum(_)
\* The sum of the numbers of a sequence.
Sum(seq) == IF seq = <<>> THEN 0 ELSE seq[1] + Sum(Tail(seq))

RECURSIVE Listed(_)
\* The members of a set, one after another.
Listed(S) ==
    IF S = {} THEN <<>> ELSE LET x == CHOOSE y \in S : TRUE IN <<x>> \o Listed(S \ {x})

\* The length of the text json.dumps(..., indent=2) makes of a dictionary or
\* a list at nesting depth `level` whose members have texts of the lengths
\* `members`: the opening bracket, each member on a line of its own behind
\* 2 * level spaces, a comma after each member but the last, and the closing
\* bracket on a line of its own behind 2 * (level - 1) spaces; with no member,
\* the two brackets.
Indented(members, level) ==
    IF members = <<>>
    THEN 2
    ELSE 1 + Sum(members) + Len(members) * (1 + 2 * level) + (Len(members) - 1)
           + 1 + 2 * (level - 1) + 1

\* len(json.dumps(h, indent=2)), line 290 and line 473.  A string is written
\* between quotation marks, a key is followed by a colon and a space; the
\* strings of the model hold no character that json.dumps escapes.
JsonLength(h) ==
    LET Quoted(s) == Len(s) + 2
        Member(key, value) == Quoted(key) + 2 + value
        EntryLength(e) ==
            Indented(<< Member("file", Quoted(e.file)), Member("type", Quoted(e.type)),
                        Member("risk", Quoted(e.risk)) >>, 3)
        ListLength(list) == Indented([i \in DOMAIN list |-> EntryLength(list[i])], 2)
        users == Listed(DOMAIN h)
    IN  Indented([i \in DOMAIN users |-> Member(users[i], ListLength(h[users[i]]))], 1)

\* The file that holds the text of h and nothing else.
FileHolding(h) == [last |-> <<h>>, size |-> JsonLength(h)]

\* Lines 281-284 and 452-455: json.loads(HISTORY_FILE.read_text()), {} if it
\* raises.  It raises when the file is empty, and when more text follows the
\* text written last.
json_loads(file) ==
    IF file.last # <<>> /\ file.size = JsonLength(file.last[1])
    THEN file.last[1]
    ELSE EmptyHistory

Users == {"a@x.org", "b@x.org"}

\* An entry already in the file, and the one the sessions record.
EntryOld == [file |-> "old.pdf", type |-> "Lease Agreement", risk |-> "Medium"]
EntryNew == [file |-> "deed.pdf", type |-> "Lease Agreement", risk |-> "High"]

\* What a session does to the file: it records an entry for its user, or its
\* user clicks on Clear History.  at is where the session stands, read the
\* dictionary it read.
SessionStarts ==
    [op : {"save_history"}, user : Users, entry : {EntryOld, EntryNew},
     at : {"ready"}, read : {EmptyHistory}]
    \cup
    [op : {"clear_history"}, user : Users, entry : {<<>>},
     at : {"ready"}, read : {EmptyHistory}]

\* What a step of a session on the file leaves alone.
ConcurrentFrame ==
    UNCHANGED <<pc, clause_map, risk, text, doc_type, clauses, text1, text2, similarity,
                env, outcome, summary, events>>

\* Lines 281-284, or 452-457: the session reads the file.  Clear History is
\* on the page only if the list read for the user is not empty.
Load(s) ==
    /\ sessions[s].at = "ready"
    /\ LET h == json_loads(history)
       IN  sessions' = [sessions EXCEPT
              ![s].read = h,
              ![s].at = IF sessions[s].op = "clear_history" /\ HistoryOf(h, sessions[s].user) = <<>>
                        THEN "done" ELSE "loaded"]
    /\ UNCHANGED history
    /\ ConcurrentFrame

\* Line 290, or 473: write_text opens the file, which empties it.
OpenForWriting(s) ==
    /\ sessions[s].at = "loaded"
    /\ history' = [last |-> <<>>, size |-> 0]
    /\ sessions' = [sessions EXCEPT ![s].at = "writing"]
    /\ ConcurrentFrame

\* Lines 285-289, or 472: the dictionary a session writes, made from the one
\* it read.
Outgoing(me) ==
    IF me.op = "save_history"
    THEN save_history(me.read, me.user, me.entry.type, me.entry.risk, me.entry.file)
    ELSE clear_history(me.read, me.user)

\* Line 290, or 473: write_text writes the text from the start of the file.
\* What the file holds beyond the end of the text stays.
WriteOut(s) ==
    /\ sessions[s].at = "writing"
    /\ history' = [last |-> <<Outgoing(sessions[s])>>,
                   size |-> Max({history.size, JsonLength(Outgoing(sessions[s]))})]
    /\ sessions' = [sessions EXCEPT ![s].at = "done"]
    /\ ConcurrentFrame

(***************************************************************************)
(* The analyze flow of main_dashboard (app.py, lines 305-374), one run of  *)
(* the script with "Analyze Document" chosen.  The functions app.py        *)
(* imports by the names extract_text_from_pdf, detect_contract_type,       *)
(* detect_clauses_with_excerpts, assess_risk and summarize_text are those  *)
(* legal_core.py defines.  text, doc_type, clauses, risk and summary are   *)
(* the locals of main_dashboard; NotComputed stands for a local that was   *)
(* not assigned.  events lists the calls made and the messages shown (the  *)
(* pictographs that open the messages are left out).                       *)
(***************************************************************************)

\* The least length of a readable text.
MinReadableLength == 20

MsgScanned == "warning: Detected a scanned document. Applying OCR extraction..."
MsgOcrFailed == "error: OCR failed"
MsgUnreadable == "error: Could not extract readable text. Try uploading a clearer document."
MsgProcessed == "success: Document successfully processed!"
MsgAppFailed == "error: App failed to load correctly. Please refresh or check logs."

\* Mutation of LooksScanned: a text of exactly 20 characters is sent to OCR too.
LooksScanned_inclusive(t) == t = "" \/ Len(t) <= MinReadableLength

\* Line 316: `not text or len(text) < 20`, of the digitally extracted text.
LooksScanned(t) == t = "" \/ Len(t) < MinReadableLength

\* Mutation of Unreadable: only an empty text is refused.
Unreadable_empty_only(t) == t = ""

\* Line 322: `not text or len(text) < 20`, of the text to analyse.
Unreadable(t) == t = "" \/ Len(t) < MinReadableLength

\* The locals the rendering reads, in the order it reads them (lines 345,
\* 349, 350, 353, 371), each with the call whose result is assigned to it
\* (lines 327-330).
RenderReads ==
    << <<"risk_level", "assess_risk">>, <<"doc_type", "detect_contract_type">>,
       <<"risk_comment", "assess_risk">>, <<"clauses", "detect_clauses_with_excerpts">>,
       <<"summary", "summarize_text">> >>

\* The calls made so far.
Called == {events[i] : i \in DOMAIN events}

\* The first local the rendering reads that was never assigned, "" if none.
FirstUnassigned ==
    LET unset == {i \in DOMAIN RenderReads : RenderReads[i][2] \notin Called}
    IN  IF unset = {} THEN "" ELSE RenderReads[Min(unset)][1]

\* What main_dashboard leaves alone in the analyze flow.
AnalyzeFrame == UNCHANGED <<clause_map, text1, text2, similarity, env, sessions>>

\* Line 309: is there anything to analyse?
AnalyzeStart ==
    /\ pc = "start"
    /\ pc' = IF env.uploaded \/ Strip(env.manual_text) # "" THEN "extract" ELSE "done"
    /\ outcome' = IF env.uploaded \/ Strip(env.manual_text) # "" THEN outcome ELSE "idle"
    /\ UNCHANGED <<text, doc_type, clauses, risk, summary, history, events>>
    /\ AnalyzeFrame

\* Lines 311-315 and 319-320: the uploaded file is read digitally, or the
\* pasted text is taken as it is.
AnalyzeExtract ==
    /\ pc = "extract"
    /\ IF env.uploaded
       THEN /\ text' = extract_text_from_pdf(env).value
            /\ events' = Append(events, "extract_text_from_pdf")
            /\ pc' = "ocr"
       ELSE /\ text' = env.manual_text
            /\ events' = events
            /\ pc' = "check"
    /\ UNCHANGED <<doc_type, clauses, risk, summary, history, outcome>>
    /\ AnalyzeFrame

\* Lines 316-318: the fallback to OCR.
AnalyzeOcr ==
    /\ pc = "ocr"
    /\ IF LooksScanned(text)
       THEN LET r == extract_text_with_ocr(env)
            IN  /\ text' = r.value
                /\ events' = events \o <<MsgScanned, "extract_text_with_ocr">>
                                    \o (IF r.error THEN <<MsgOcrFailed>> ELSE <<>>)
       ELSE UNCHANGED <<text, events>>
    /\ pc' = "check"
    /\ UNCHANGED <<doc_type, clauses, risk, summary, history, outcome>>
    /\ AnalyzeFrame

\* Lines 322-326: the test of the text.
AnalyzeCheck ==
    /\ pc = "check"
    /\ IF Unreadable(text)
       THEN events' = Append(events, MsgUnreadable) /\ pc' = "render"
       ELSE events' = Append(events, MsgProcessed) /\ pc' = "classify"
    /\ UNCHANGED <<text, doc_type, clauses, risk, summary, history, outcome>>
    /\ AnalyzeFrame

\* Line 327
AnalyzeClassify ==
    /\ pc = "classify"
    /\ doc_type' = detect_contract_type(text)
    /\ events' = Append(events, "detect_contract_type")
    /\ pc' = "clauses"
    /\ UNCHANGED <<text, clauses, risk, summary, history, outcome>>
    /\ AnalyzeFrame

\* Line 328
AnalyzeClauses ==
    /\ pc = "clauses"
    /\ clauses' = detect_clauses_with_excerpts(text)
    /\ events' = Append(events, "detect_clauses_with_excerpts")
    /\ pc' = "risk"
    /\ UNCHANGED <<text, doc_type, risk, summary, history, outcome>>
    /\ AnalyzeFrame

\* Line 329
AnalyzeRisk ==
    /\ pc = "risk"
    /\ risk' = assess_risk(clauses)
    /\ events' = Append(events, "assess_risk")
    /\ pc' = "summarize"
    /\ UNCHANGED <<text, doc_type, clauses, summary, history, outcome>>
    /\ AnalyzeFrame

\* Line 330
AnalyzeSummarize ==
    /\ pc = "summarize"
    /\ summary' = summarize_text(text, SummarySentences)
    /\ events' = Append(events, "summarize_text")
    /\ pc' = "save"
    /\ UNCHANGED <<text, doc_type, clauses, risk, history, outcome>>
    /\ AnalyzeFrame

\* Line 331: save_history is called, and the session of the run comes to
\* work on the history file, by Load, OpenForWriting and WriteOut.
AnalyzeSave ==
    /\ pc = "save"
    /\ sessions' = Append(sessions,
          [op |-> "save_history", user |-> env.user,
           entry |-> [file |-> IF env.uploaded THEN env.filename ELSE "Manual Text",
                      type |-> doc_type, risk |-> risk.level],
           at |-> "ready", read |-> EmptyHistory])
    /\ events' = Append(events, "save_history")
    /\ pc' = "saving"
    /\ UNCHANGED <<text, doc_type, clauses, risk, summary, history, outcome>>
    /\ UNCHANGED <<clause_map, text1, text2, similarity, env>>

\* Line 331: save_history returns, the file written.
AnalyzeSaved ==
    /\ pc = "saving"
    /\ sessions[Len(sessions)].at = "done"
    /\ pc' = "render"
    /\ UNCHANGED <<text, doc_type, clauses, risk, summary, history, outcome, events>>
    /\ AnalyzeFrame

\* Lines 333-374, and 485-487 of main: the page is drawn from the locals.
\* Reading a local that was never assigned raises UnboundLocalError, which
\* nothing in main_dashboard catches; main catches it and shows its message.
AnalyzeRender ==
    /\ pc = "render"
    /\ IF FirstUnassigned = ""
       THEN /\ events' = Append(events, "rendered")
            /\ outcome' = "rendered"
       ELSE /\ events' = events \o <<"UnboundLocalError: " \o FirstUnassigned, MsgAppFailed>>
            /\ outcome' = "exception caught by main"
    /\ pc' = "done"
    /\ UNCHANGED <<text, doc_type, clauses, risk, summary, history>>
    /\ AnalyzeFrame

NextAnalyze ==
    \/ AnalyzeStart \/ AnalyzeExtract \/ AnalyzeOcr \/ AnalyzeCheck
    \/ AnalyzeClassify \/ AnalyzeClauses \/ AnalyzeRisk \/ AnalyzeSummarize
    \/ AnalyzeSave \/ AnalyzeSaved \/ AnalyzeRender
    \/ \E s \in DOMAIN sessions : Load(s) \/ OpenForWriting(s) \/ WriteOut(s)

(***************************************************************************)
(* Specification of the analyze flow: a user, an upload or a pasted text,  *)
(* and the history file as it stands are chosen; the script runs.  While a *)
(* pasted text is analysed, the session of another user may be at work on  *)
(* the history file.                                                       *)
(***************************************************************************)

\* Largest number of pages of an uploaded PDF.
MaxAnalyzedPages == 1

\* A text of 19 characters, one of 20, and one that is classified.
Text19 == "nineteen characters"
Text20 == "This is twenty chars"
TextEmployment == "The Employee gets a salary.\nThe employer may terminate. "

\* A text of six sentences, one of them longer than 30 characters, and one
\* parted from the next by a form feed.
TextSentences == "One. Two!\fThree?  Four. This sentence is longer than thirty characters. Six."

\* The texts a page of an uploaded PDF may hold, one of them 19 characters
\* closed by a form feed, as Tesseract closes a page.
AnalyzedTexts == {"", Text19, Text19 \o "\f", Text20, TextEmployment}

\* The texts pasted: none, blank, short, 19 and 20 characters (one of them 20
\* only with the white space around it), and one that is classified.
ManualTexts ==
    {"", "  \n ", "Too short a text.", Text19, Text20, "  padded to twenty \n",
     TextEmployment, TextSentences}

AnalyzedPdfs ==
    UNION {[1..k -> [layer : {Yields(t) : t \in AnalyzedTexts} \cup {Raises},
                     scan  : {Yields(t) : t \in AnalyzedTexts} \cup {Raises}]]
           : k \in 0..MaxAnalyzedPages}

\* The history file before the run: as created, or with an entry of another
\* user and the entry this run may come to record.
AnalyzedHistories ==
    { EmptyHistory,
      [u \in {"a@x.org", "b@x.org"} |->
         IF u = "a@x.org"
         THEN <<[file |-> "Manual Text", type |-> "Employment Contract", risk |-> "High"]>>
         ELSE <<[file |-> "old.pdf", type |-> "Lease Agreement", risk |-> "Medium"]>>] }

Uploads ==
    [user : {"a@x.org"}, uploaded : {TRUE}, filename : {"deed.pdf"},
     manual_text : {"", TextEmployment},
     PdfReader : BOOLEAN, opens : BOOLEAN, rasterizes : BOOLEAN, pages : AnalyzedPdfs,
     history0 : AnalyzedHistories, others : {<<>>}]

Pastes ==
    [user : {"a@x.org"}, uploaded : {FALSE}, filename : {""},
     manual_text : ManualTexts,
     PdfReader : {TRUE}, opens : {TRUE}, rasterizes : {TRUE}, pages : {<<>>},
     history0 : AnalyzedHistories, others : {<<>>} \cup {<<o>> : o \in SessionStarts}]

InitAnalyze ==
    /\ pc = "start"
    /\ env \in Uploads \cup Pastes
    /\ history = FileHolding(env.history0)
    /\ outcome = NotComputed
    /\ events = <<>>
    /\ text = NotComputed /\ doc_type = NotComputed /\ clauses = NotComputed
    /\ risk = NotComputed /\ summary = NotComputed
    /\ sessions = env.others
    /\ clause_map = <<>>
    /\ text1 = "" /\ text2 = "" /\ similarity = NotComputed

SpecAnalyze == InitAnalyze /\ [][NextAnalyze]_vars

(***************************************************************************)
(* Claims about the analyze flow.                                          *)
(***************************************************************************)

\* The stages that follow the test of the text.
DownstreamStages ==
    {"detect_contract_type", "detect_clauses_with_excerpts", "assess_risk",
     "summarize_text", "save_history"}

\* The run has something to analyse and is past the test of the text.
PastCheck ==
    /\ pc \in {"classify", "clauses", "risk", "summarize", "save", "saving", "render", "done"}
    /\ outcome # "idle"

\* C11: when the text extracted or pasted is empty or shorter than 20
\* characters, the run shows the failure message and runs no downstream
\* stage: detect_contract_type, detect_clauses_with_excerpts, assess_risk and
\* summarize_text are not called, and save_history is not called: the session
\* of the run does not come to work on the history file, which is as it was
\* when no other session is at work on it.
C11_FailedRunsNoStage ==
    (PastCheck /\ Len(text) < 20) =>
        /\ MsgUnreadable \in Called
        /\ Called \cap DownstreamStages = {}
        /\ doc_type = NotComputed
        /\ Len(sessions) = Len(env.others)
        /\ env.others = <<>> => history = FileHolding(env.history0)

\* C11 witness: an upload whose text layer and whose OCR both gave too little;
\* the run ended with the failure message, the history file, which held
\* entries, untouched.
C11_Witness ==
    /\ pc = "done"
    /\ env.uploaded /\ "extract_text_with_ocr" \in Called
    /\ text = Text19
    /\ MsgUnreadable \in Called
    /\ env.history0 # EmptyHistory /\ history = FileHolding(env.history0)

\* C12: after the failure message the run reads no classification label,
\* clause map, risk level or summary that was never assigned, raises no
\* error and ends normally.
C12_AsStated ==
    (pc = "done" /\ MsgUnreadable \in Called) =>
        /\ outcome = "rendered"
        /\ MsgAppFailed \notin Called
        /\ "UnboundLocalError: risk_level" \notin Called

\* C13: for an uploaded PDF the digital extraction comes first, OCR runs if
\* and only if the digitally extracted text is empty or shorter than 20
\* characters, and the text that reaches the test is the OCR text when OCR
\* ran and the digital text otherwise.
C13_OcrFallback ==
    /\ (env.uploaded /\ pc = "ocr") => events = <<"extract_text_from_pdf">>
    /\ (env.uploaded /\ pc \notin {"start", "extract", "ocr"}) =>
          LET digital == extract_text_from_pdf(env).value
              ocr     == "extract_text_with_ocr" \in Called
          IN  /\ events[1] = "extract_text_from_pdf"
              /\ ocr <=> Len(digital) < 20
              /\ text = IF ocr THEN extract_text_with_ocr(env).value ELSE digital

\* C13 witness: the text layer gave 19 characters, OCR ran and gave 20, and
\* these 20 reached the test.
C13_Witness ==
    /\ env.uploaded /\ pc = "check"
    /\ extract_text_from_pdf(env).value = Text19
    /\ events = <<"extract_text_from_pdf", MsgScanned, "extract_text_with_ocr">>
    /\ text = Text20

(***************************************************************************)
(* Specification of the history file under sessions that run at the same   *)
(* time: each session runs save_history (app.py, lines 280-290) or the     *)
(* Clear History branch (lines 451-475) once, the steps of the sessions in *)
(* any order, those in which one session ends before the next begins       *)
(* among them.                                                             *)
(***************************************************************************)

\* The number of sessions.
NumSessions == 2

\* The file before the sessions start: as created, or with an entry of one
\* user, or of both.
SharedHistories ==
    { EmptyHistory,
      [u \in {"a@x.org"} |-> <<EntryOld>>],
      [u \in Users |-> <<EntryOld>>] }

InitConcurrent ==
    /\ pc = "running"
    /\ env \in [history0 : SharedHistories]
    /\ history = FileHolding(env.history0)
    /\ sessions \in [1..NumSessions -> SessionStarts]
    /\ events = <<>>
    /\ outcome = NotComputed /\ summary = NotComputed
    /\ clause_map = <<>> /\ risk = NotComputed
    /\ text = "" /\ doc_type = NotComputed /\ clauses = NotComputed
    /\ text1 = "" /\ text2 = "" /\ similarity = NotComputed

NextConcurrent ==
    \E s \in 1..NumSessions : Load(s) \/ OpenForWriting(s) \/ WriteOut(s)

SpecConcurrent == InitConcurrent /\ [][NextConcurrent]_vars

(***************************************************************************)
(* Claims about the history file.                                          *)
(***************************************************************************)

\* No list of the dictionary holds an entry twice.
NoDuplicates(h) ==
    \A u \in DOMAIN h : \A i, j \in DOMAIN h[u] : h[u][i] = h[u][j] => i = j

\* C16: save_history writes the list of its user as it read it when the list
\* holds the entry already, and with the entry appended otherwise; a click on
\* Clear History writes the list of its user empty; either writes the list of
\* every other user as it read it; the file holds what was written when
\* nothing else was written to it since it was opened; and no list read from
\* the file ever holds an entry twice.
C16_IdempotentAppend ==
    [][ \A s \in DOMAIN sessions :
          (sessions[s].at = "writing" /\ sessions'[s].at = "done") =>
             LET me      == sessions[s]
                 written == history'.last[1]
                 was     == HistoryOf(me.read, me.user)
                 is      == HistoryOf(written, me.user)
             IN  /\ \A u \in Users \ {me.user} :
                        HistoryOf(written, u) = HistoryOf(me.read, u)
                 /\ (me.op = "save_history" /\ me.entry \in Entries(was)) => is = was
                 /\ (me.op = "save_history" /\ me.entry \notin Entries(was))
                       => is = Append(was, me.entry)
                 /\ me.op = "clear_history" => is = <<>>
                 /\ history.size = 0 => json_loads(history') = written
                 /\ NoDuplicates(json_loads(history')) ]_vars

\* C16 witness: two sessions recorded the same entry for the same user, the
\* second after the first had finished; the list holds the entry once, and
\* the list of the other user is as it was.
C16_Witness ==
    /\ \A s \in 1..NumSessions :
          /\ sessions[s].op = "save_history" /\ sessions[s].user = "b@x.org"
          /\ sessions[s].entry = EntryNew /\ sessions[s].at = "done"
    /\ env.history0 = [u \in {"a@x.org"} |-> <<EntryOld>>]
    /\ sessions[1].read = env.history0
    /\ sessions[2].read = [u \in Users |-> IF u = "a@x.org" THEN <<EntryOld>> ELSE <<EntryNew>>]
    /\ history = FileHolding(sessions[2].read)

AllDone == \A s \in 1..NumSessions : sessions[s].at = "done"

\* A session cleared the list of user u: it found the list not empty and
\* wrote the file.
Cleared(u) ==
    \E s \in 1..NumSessions :
        /\ sessions[s].op = "clear_history" /\ sessions[s].user = u
        /\ HistoryOf(sessions[s].read, u) # <<>>

\* The entries the sessions recorded for user u.
RecordedFor(u) ==
    {sessions[s].entry : s \in {t \in 1..NumSessions :
                                   sessions[t].op = "save_history" /\ sessions[t].user = u}}

\* C19: once the sessions have finished, no update is lost.  The file holds
\* the text of a dictionary, with every entry a session recorded for a user
\* and every entry the user had before, unless that user's list was cleared;
\* and a list that was cleared holds none of the entries it had before, only
\* entries recorded by the sessions.
C19_AsStated ==
    AllDone =>
        /\ history = FileHolding(json_loads(history))
        /\ \A u \in Users :
              LET now == Entries(HistoryOf(json_loads(history), u))
                  old == Entries(HistoryOf(env.history0, u))
              IN  IF Cleared(u)
                  THEN now \subseteq RecordedFor(u)
                  ELSE RecordedFor(u) \cup old \subseteq now

=============================================================================
